---- MODULE Spec2Model ----
(***************************************************************************)
(* Model of src/core/embeddings/llama_cpp.py (LlamaCppEmbeddings) and of   *)
(* the configuration lookups of src/core/utils.py.                         *)
(*                                                                         *)
(* Three specifications share the module:                                  *)
(*   Spec         one call of LlamaCppEmbeddings.get_embeddings            *)
(*   SpecPooling  calls of max_pooling / average_pooling /                 *)
(*                concatenate_pooling on a token sequence and on a         *)
(*                reordering of it                                         *)
(*   SpecConfig   LlamaCppEmbeddings.__init__ and get_prompt against the   *)
(*                two JSON configuration files                             *)
(***************************************************************************)
EXTENDS Integers, Sequences, FiniteSets, TLC

VARIABLES
    \* ---- get_embeddings (llama_cpp.py 105-111)
    texts,          \* the argument `texts`
    idx,            \* how many elements the for loop has taken from texts
    text,           \* the loop variable `text`
    embedding,      \* the local `embedding`
    embeddings,     \* the local list `embeddings`
    pc,             \* position inside get_embeddings
    returned,       \* what get_embeddings handed back to its caller
    trace,          \* history: provider calls/returns/raises and appends
    \* ---- pooling functions (llama_cpp.py 37-75)
    token_embeddings,   \* the argument of the pooling call
    original,           \* the same tokens in their original order
    called,             \* which pooling function was called
    out,                \* its outcome on token_embeddings
    out_original,       \* its outcome on original
    \* ---- configuration (llama_cpp.py 19-35, utils.py 84-111, 191-210)
    context_lenght,     \* contents of configs/context_lenght.json
    prompts,            \* contents of configs/prompts.json
    repo_id,            \* argument of __init__
    key_name,           \* argument of get_prompt
    n_ctx,              \* the local n_ctx of __init__
    cpc,                \* position inside __init__ / get_prompt
    hub_downloads,      \* arguments of the hf_hub_download calls made
    llama_loads,        \* arguments of the llama_cpp.Llama(...) calls made
    prompt_result       \* outcome of get_prompt

driverVars == <<texts, idx, text, embedding, embeddings, pc, returned, trace>>
poolVars   == <<token_embeddings, original, called, out, out_original>>
configVars == <<context_lenght, prompts, repo_id, key_name, n_ctx, cpc,
                hub_downloads, llama_loads, prompt_result>>
vars       == <<driverVars, poolVars, configVars>>

(***************************************************************************)
(* Bounds of the model.                                                    *)
(***************************************************************************)
MaxTexts == 3       \* longest `texts` list
MaxTokens == 3      \* longest token sequence
MaxDim == 2         \* largest embedding width D
Precision == 3      \* significand bits of the modelled binary float

None == "None"

\* What a call hands back to its caller: nothing (yet), or a list.
NoneValue    == [type |-> "NoneType", value |-> <<>>]
ListValue(l) == [type |-> "list", value |-> l]

(***************************************************************************)
(* Numeric arrays.  np.array(token_embeddings) holds IEEE-754 binary       *)
(* floats and every numpy operation rounds its exact result to the nearest *)
(* representable value, ties to even.  A float is modelled as m * 2^e with *)
(* m odd (or m = 0, e = 0) and |m| < 2^Precision; binary64 has 53          *)
(* significand bits, the model keeps Precision of them.                    *)
(***************************************************************************)
Abs(a) == IF a < 0 THEN -a ELSE a

Min2(a, b) == IF a < b THEN a ELSE b

RECURSIVE BitLen(_)
BitLen(a) == IF a = 0 THEN 0 ELSE 1 + BitLen(a \div 2)

RECURSIVE Normalize(_, _)
Normalize(m, e) ==
    IF m = 0 THEN [m |-> 0, e |-> 0]
    ELSE IF m % 2 = 0 THEN Normalize(m \div 2, e + 1)
    ELSE [m |-> m, e |-> e]

\* The float nearest to sign * (a + fraction) * 2^e, where a >= 0 and the
\* fraction is in (0,1) when sticky and 0 otherwise: round to nearest, ties
\* to even.
RoundNearestEven(sign, a, sticky, e) ==
    LET k == BitLen(a) - Precision
    IN  IF k <= 0
        THEN Normalize(sign * a, e)
        ELSE LET q    == a \div (2 ^ k)
                 r    == a % (2 ^ k)
                 half == 2 ^ (k - 1)
                 up   == \/ r > half
                         \/ r = half /\ (sticky \/ q % 2 = 1)
             IN  Normalize(sign * (IF up THEN q + 1 ELSE q), e + k)

\* Conversion of a Python number of the input list to an array element.
FloatOf(i) == RoundNearestEven(IF i < 0 THEN -1 ELSE 1, Abs(i), FALSE, 0)

\* x + y as numpy adds two array elements.
FAdd(x, y) ==
    LET e == Min2(x.e, y.e)
        s == x.m * 2 ^ (x.e - e) + y.m * 2 ^ (y.e - e)
    IN  RoundNearestEven(IF s < 0 THEN -1 ELSE 1, Abs(s), FALSE, e)

\* x / n as np.mean divides the column sum by the row count n >= 1.
FDiv(x, n) ==
    LET shift == Precision + BitLen(n)
        a     == Abs(x.m) * 2 ^ shift
    IN  RoundNearestEven(IF x.m < 0 THEN -1 ELSE 1, a \div n, a % n # 0,
                         x.e - shift)

FLess(x, y) ==
    LET e == Min2(x.e, y.e)
    IN  x.m * 2 ^ (x.e - e) < y.m * 2 ^ (y.e - e)

\* np.maximum of two array elements.
FMax(x, y) == IF FLess(x, y) THEN y ELSE x

\* Outcomes of a pooling call.
Array(v)   == [kind |-> "ndarray", value |-> v]
NaN        == [kind |-> "nan", value |-> <<>>]
ValueError == [kind |-> "ValueError", value |-> <<>>]
NotCalled  == [kind |-> "none", value |-> <<>>]

\* Width of the rows of a non-empty token list.
Dim(tokens) == Len(tokens[1])

\* np.add.reduce along axis 0: rows are accumulated in order.
RECURSIVE ColumnSum(_, _, _)
ColumnSum(tokens, i, k) ==
    IF k = 1 THEN FloatOf(tokens[1][i])
    ELSE FAdd(ColumnSum(tokens, i, k - 1), FloatOf(tokens[k][i]))

\* np.maximum.reduce along axis 0.
RECURSIVE ColumnMax(_, _, _)
ColumnMax(tokens, i, k) ==
    IF k = 1 THEN FloatOf(tokens[1][i])
    ELSE FMax(ColumnMax(tokens, i, k - 1), FloatOf(tokens[k][i]))

\* Mutant of max_pooling: token_embeddings_array[-1], the last token vector.
max_pooling_LastToken(tokens) ==
    IF tokens = <<>> THEN ValueError
    ELSE Array([i \in 1..Dim(tokens) |-> FloatOf(tokens[Len(tokens)][i])])

\* Mutant of max_pooling: the token vector of largest Euclidean norm.
max_pooling_LargestNorm(tokens) ==
    IF tokens = <<>> THEN ValueError
    ELSE LET Norm2(t) == LET RECURSIVE Sq(_)
                             Sq(i) == IF i = 0 THEN 0
                                      ELSE t[i] * t[i] + Sq(i - 1)
                         IN  Sq(Len(t))
             best == CHOOSE k \in 1..Len(tokens) :
                        \A j \in 1..Len(tokens) :
                            Norm2(tokens[j]) <= Norm2(tokens[k])
         IN  Array([i \in 1..Dim(tokens) |-> FloatOf(tokens[best][i])])

\* LlamaCppEmbeddings.max_pooling: np.max(np.array(token_embeddings), axis=0).
\* np.array([]) has shape (0,): the reduction has no identity and raises.
max_pooling(tokens) ==
    IF tokens = <<>> THEN ValueError
    ELSE Array([i \in 1..Dim(tokens) |-> ColumnMax(tokens, i, Len(tokens))])

\* Mutant of average_pooling: np.sum in place of np.mean.
average_pooling_Sum(tokens) ==
    IF tokens = <<>> THEN Array(<<>>)
    ELSE Array([i \in 1..Dim(tokens) |-> ColumnSum(tokens, i, Len(tokens))])

\* LlamaCppEmbeddings.average_pooling: np.mean(np.array(token_embeddings),
\* axis=0).  On the empty array np.mean warns and returns nan.
average_pooling(tokens) ==
    IF tokens = <<>> THEN NaN
    ELSE Array([i \in 1..Dim(tokens) |->
                   FDiv(ColumnSum(tokens, i, Len(tokens)), Len(tokens))])

\* Mutant of concatenate_pooling: np.concatenate((max, avg)).
concatenate_pooling_MaxFirst(tokens) ==
    LET avg_embedding == average_pooling(tokens)
        max_embedding == max_pooling(tokens)
    IN  IF max_embedding.kind = "ValueError" THEN ValueError
        ELSE Array(max_embedding.value \o avg_embedding.value)

\* LlamaCppEmbeddings.concatenate_pooling: average_pooling, then max_pooling
\* (whose exception propagates), then np.concatenate((avg, max)).
concatenate_pooling(tokens) ==
    LET avg_embedding == average_pooling(tokens)
        max_embedding == max_pooling(tokens)
    IN  IF max_embedding.kind = "ValueError" THEN ValueError
        ELSE Array(avg_embedding.value \o max_embedding.value)

(***************************************************************************)
(* get_embeddings (llama_cpp.py 105-111).  self.llm.embed is the external  *)
(* Model Provider: for any text it either returns some value or raises.    *)
(***************************************************************************)
Texts == {"a", "b"}

\* Values the provider can return.
ProviderValues == {"e1", "e2"}

RECURSIVE SeqsUpTo(_, _)
SeqsUpTo(S, n) ==
    IF n = 0 THEN {<<>>}
    ELSE LET shorter == SeqsUpTo(S, n - 1)
         IN  shorter \cup {Append(q, x) : q \in shorter, x \in S}

Event(ev, i, v) == [ev |-> ev, i |-> i, v |-> v]

DriverIdle ==
    /\ texts = <<>>
    /\ idx = 0
    /\ text = None
    /\ embedding = None
    /\ embeddings = <<>>
    /\ pc = "idle"
    /\ returned = NoneValue
    /\ trace = <<>>

PoolIdle ==
    /\ token_embeddings = <<>>
    /\ original = <<>>
    /\ called = "none"
    /\ out = NotCalled
    /\ out_original = NotCalled

ConfigIdle ==
    /\ context_lenght = <<>>
    /\ prompts = <<>>
    /\ repo_id = None
    /\ key_name = None
    /\ n_ctx = None
    /\ cpc = "idle"
    /\ hub_downloads = <<>>
    /\ llama_loads = <<>>
    /\ prompt_result = None

\* Line 105: get_embeddings is entered with some list and `embeddings = []`.
Init ==
    /\ texts \in SeqsUpTo(Texts, MaxTexts)
    /\ idx = 0
    /\ text = None
    /\ embedding = None
    /\ embeddings = <<>>
    /\ pc = "for"
    /\ returned = NoneValue
    /\ trace = <<>>
    /\ PoolIdle
    /\ ConfigIdle

\* Line 107: the for statement takes the next element of texts, or ends.
ForNext ==
    /\ pc = "for"
    /\ IF idx < Len(texts)
       THEN /\ idx' = idx + 1
            /\ text' = texts[idx + 1]
            /\ pc' = "embed"
       ELSE /\ pc' = "return"
            /\ UNCHANGED <<idx, text>>
    /\ UNCHANGED <<texts, embedding, embeddings, returned, trace>>
    /\ UNCHANGED <<poolVars, configVars>>

\* Line 108: self.llm.embed(text) is called.
EmbedCall ==
    /\ pc = "embed"
    /\ trace' = Append(trace, Event("call", idx, text))
    /\ pc' = "in_embed"
    /\ UNCHANGED <<texts, idx, text, embedding, embeddings, returned>>
    /\ UNCHANGED <<poolVars, configVars>>

\* Line 108: the provider returns v, which is bound to `embedding`.
EmbedReturn(v) ==
    /\ pc = "in_embed"
    /\ embedding' = v
    /\ trace' = Append(trace, Event("return", idx, v))
    /\ pc' = "append"
    /\ UNCHANGED <<texts, idx, text, embeddings, returned>>
    /\ UNCHANGED <<poolVars, configVars>>

\* Mutant of EmbedRaise: the failure is caught and the loop goes on.
EmbedRaise_Swallowed ==
    /\ pc = "in_embed"
    /\ trace' = Append(trace, Event("raise", idx, text))
    /\ pc' = "for"
    /\ UNCHANGED <<texts, idx, text, embedding, embeddings, returned>>
    /\ UNCHANGED <<poolVars, configVars>>

\* Line 108: the provider raises.  Nothing in lines 105-111 catches it, so
\* the exception leaves get_embeddings.
EmbedRaise ==
    /\ pc = "in_embed"
    /\ trace' = Append(trace, Event("raise", idx, text))
    /\ pc' = "raised"
    /\ UNCHANGED <<texts, idx, text, embedding, embeddings, returned>>
    /\ UNCHANGED <<poolVars, configVars>>

\* Mutant of AppendEmbedding: embeddings.insert(0, embedding).
AppendEmbedding_Prepend ==
    /\ pc = "append"
    /\ embeddings' = <<embedding>> \o embeddings
    /\ trace' = Append(trace, Event("append", idx, embedding))
    /\ pc' = "for"
    /\ UNCHANGED <<texts, idx, text, embedding, returned>>
    /\ UNCHANGED <<poolVars, configVars>>

\* Mutant of AppendEmbedding: the value is pooled before it is appended, as
\* in the commented-out lines 96-99.
AppendEmbedding_Pooled ==
    /\ pc = "append"
    /\ embeddings' = Append(embeddings, embedding)
    /\ trace' = trace \o <<Event("pool", idx, embedding),
                            Event("append", idx, embedding)>>
    /\ pc' = "for"
    /\ UNCHANGED <<texts, idx, text, embedding, returned>>
    /\ UNCHANGED <<poolVars, configVars>>

\* Line 109: embeddings.append(embedding).
AppendEmbedding ==
    /\ pc = "append"
    /\ embeddings' = Append(embeddings, embedding)
    /\ trace' = Append(trace, Event("append", idx, embedding))
    /\ pc' = "for"
    /\ UNCHANGED <<texts, idx, text, embedding, returned>>
    /\ UNCHANGED <<poolVars, configVars>>

\* Mutant of Return: `return embeddings or None`.
Return_NoneWhenEmpty ==
    /\ pc = "return"
    /\ returned' = IF embeddings = <<>> THEN NoneValue
                   ELSE ListValue(embeddings)
    /\ pc' = "done"
    /\ UNCHANGED <<texts, idx, text, embedding, embeddings, trace>>
    /\ UNCHANGED <<poolVars, configVars>>

\* Line 111: return embeddings.
Return ==
    /\ pc = "return"
    /\ returned' = ListValue(embeddings)
    /\ pc' = "done"
    /\ UNCHANGED <<texts, idx, text, embedding, embeddings, trace>>
    /\ UNCHANGED <<poolVars, configVars>>

Next ==
    \/ ForNext
    \/ EmbedCall
    \/ \E v \in ProviderValues : EmbedReturn(v)
    \/ EmbedRaise
    \/ AppendEmbedding
    \/ Return

Spec == Init /\ [][Next]_vars

(***************************************************************************)
(* Claims about get_embeddings, checked under Spec.                        *)
(***************************************************************************)
\* Positions of the trace holding a provider return for the i-th text.
ReturnsFor(i) ==
    {k \in 1..Len(trace) : trace[k].ev = "return" /\ trace[k].i = i}

\* C1: when every provider call succeeded, the returned list is as long as
\* texts and its i-th element is the value the provider returned for the
\* call made with texts[i].
C1_OutputMatchesInput ==
    pc = "done" =>
        /\ returned.type = "list"
        /\ Len(returned.value) = Len(texts)
        /\ \A i \in 1..Len(texts) :
              /\ \E k \in 1..Len(trace) : trace[k] = Event("call", i, texts[i])
              /\ Cardinality(ReturnsFor(i)) = 1
              /\ \A k \in ReturnsFor(i) : returned.value[i] = trace[k].v

\* Three texts were embedded and the provider's values were not all equal.
C1_Witness ==
    /\ pc = "done"
    /\ Len(texts) = 3
    /\ returned.value[1] # returned.value[2]

\* C2: a provider failure is the last thing that happens in get_embeddings:
\* the call leaves by the exception, no list is returned, the failed text is
\* not tried again and no later text reaches the provider.
C2_FailureSurfaced ==
    \A k \in 1..Len(trace) :
        trace[k].ev = "raise" =>
            /\ k = Len(trace)
            /\ pc = "raised"
            /\ returned.type = "NoneType"
            /\ Cardinality({j \in 1..Len(trace) : trace[j].ev = "call"})
                  = trace[k].i

\* The provider failed on the second of three texts.
C2_Witness ==
    /\ pc = "raised"
    /\ Len(texts) = 3
    /\ idx = 2
    /\ Len(embeddings) = 1

\* C3: with texts = [] the provider is never called and the call returns the
\* empty list.
C3_EmptyInput ==
    texts = <<>> =>
        /\ trace = <<>>
        /\ pc \in {"for", "return", "done"}
        /\ pc = "done" => returned = ListValue(<<>>)

C3_Witness ==
    /\ texts = <<>>
    /\ pc = "done"

Vals == {-1, 3 * 2 ^ (Precision - 1)}

TokenVectors(D) == [1..D -> Vals]

TokenLists == UNION {SeqsUpTo(TokenVectors(D), MaxTokens) : D \in 0..MaxDim}

\* Lexicographic order of two vectors of one width.
LexLE(a, b) ==
    \/ a = b
    \/ \E j \in 1..Len(a) :
          /\ a[j] < b[j]
          /\ \A i \in 1..(j - 1) : a[i] = b[i]

IsSorted(tokens) ==
    \A k \in 1..(Len(tokens) - 1) : LexLE(tokens[k], tokens[k + 1])

InitPooling ==
    /\ original \in {t \in TokenLists : IsSorted(t)}
    /\ token_embeddings = original
    /\ called = "none"
    /\ out = NotCalled
    /\ out_original = NotCalled
    /\ DriverIdle
    /\ ConfigIdle

\* The caller reorders the tokens: two neighbours change places.
Permute(i) ==
    /\ called = "none"
    /\ i \in 1..(Len(token_embeddings) - 1)
    /\ token_embeddings[i] # token_embeddings[i + 1]
    /\ token_embeddings' =
          [token_embeddings EXCEPT ![i] = token_embeddings[i + 1],
                                   ![i + 1] = token_embeddings[i]]
    /\ UNCHANGED <<original, called, out, out_original>>
    /\ UNCHANGED <<driverVars, configVars>>

MaxPooling ==
    /\ called = "none"
    /\ called' = "max_pooling"
    /\ out' = max_pooling(token_embeddings)
    /\ out_original' = max_pooling(original)
    /\ UNCHANGED <<token_embeddings, original>>
    /\ UNCHANGED <<driverVars, configVars>>

AveragePooling ==
    /\ called = "none"
    /\ called' = "average_pooling"
    /\ out' = average_pooling(token_embeddings)
    /\ out_original' = average_pooling(original)
    /\ UNCHANGED <<token_embeddings, original>>
    /\ UNCHANGED <<driverVars, configVars>>

ConcatenatePooling ==
    /\ called = "none"
    /\ called' = "concatenate_pooling"
    /\ out' = concatenate_pooling(token_embeddings)
    /\ out_original' = concatenate_pooling(original)
    /\ UNCHANGED <<token_embeddings, original>>
    /\ UNCHANGED <<driverVars, configVars>>

NextPooling ==
    \/ \E i \in 1..(MaxTokens - 1) : Permute(i)
    \/ MaxPooling
    \/ AveragePooling
    \/ ConcatenatePooling

SpecPooling == InitPooling /\ [][NextPooling]_vars

(***************************************************************************)
(* Claims about the pooling functions, checked under SpecPooling.  The     *)
(* reference values are computed in exact integer arithmetic.              *)
(***************************************************************************)
\* Exact sum of the first k entries of column i.
RECURSIVE ExactSum(_, _, _)
ExactSum(tokens, i, k) ==
    IF k = 0 THEN 0 ELSE ExactSum(tokens, i, k - 1) + tokens[k][i]

\* Exact sum of the absolute values of column i.
RECURSIVE AbsSum(_, _, _)
AbsSum(tokens, i, k) ==
    IF k = 0 THEN 0 ELSE AbsSum(tokens, i, k - 1) + Abs(tokens[k][i])

\* The largest entry of column i.
ExactMax(tokens, i) ==
    CHOOSE v \in {tokens[k][i] : k \in 1..Len(tokens)} :
        \A k \in 1..Len(tokens) : tokens[k][i] <= v

\* x = num / den, for a float x and integers num, den with den > 0.
ValueEq(x, num, den) ==
    IF x.e >= 0 THEN x.m * 2 ^ x.e * den = num
    ELSE x.m * den = num * 2 ^ (-x.e)

\* |den * x - num| * c <= bound, for a float x.
ErrorWithin(x, num, den, c, bound) ==
    IF x.e >= 0 THEN Abs(den * x.m * 2 ^ x.e - num) * c <= bound
    ELSE Abs(den * x.m - num * 2 ^ (-x.e)) * c <= bound * 2 ^ (-x.e)

\* The integer a is a float: its odd part fits the significand.
Representable(a) == Abs(Normalize(a, 0).m) < 2 ^ Precision

\* num / den is a float.
RepresentableRatio(num, den) ==
    \E k \in 0..(Precision + BitLen(den)) :
        /\ (num * 2 ^ k) % den = 0
        /\ Representable((num * 2 ^ k) \div den)

\* No operation of the mean of column i rounds: every running sum and the
\* quotient are floats.
ExactColumn(tokens, i) ==
    /\ \A k \in 1..Len(tokens) : Representable(ExactSum(tokens, i, k))
    /\ RepresentableRatio(ExactSum(tokens, i, Len(tokens)), Len(tokens))

\* C4 as claimed: every pooling function called with an empty token
\* sequence ends in an error, never in a NaN or another value.
C4_EmptyRaises ==
    (called # "none" /\ token_embeddings = <<>>) => out.kind = "ValueError"

\* C6 as claimed: average_pooling of n >= 1 vectors of width D has width D
\* and n times its element i is the sum of column i.
C6_ExactMean ==
    (called = "average_pooling" /\ token_embeddings # <<>>) =>
        /\ out.kind = "ndarray"
        /\ Len(out.value) = Dim(token_embeddings)
        /\ \A i \in 1..Dim(token_embeddings) :
              ValueEq(out.value[i],
                      ExactSum(token_embeddings, i, Len(token_embeddings)),
                      Len(token_embeddings))

\* C6 amended: average_pooling of n >= 1 vectors of width D has width D and
\* its element i is the mean of column i up to the rounding of the n float
\* operations that compute it: with u = 2^-Precision,
\* |n * out[i] - sum| <= n*u / (1 - n*u) * (sum of |column i|), and
\* n * out[i] = sum when no operation rounds.
C6_MeanUpToRounding ==
    (called = "average_pooling" /\ token_embeddings # <<>>) =>
        LET n == Len(token_embeddings)
        IN  /\ out.kind = "ndarray"
            /\ Len(out.value) = Dim(token_embeddings)
            /\ \A i \in 1..Dim(token_embeddings) :
                  /\ ErrorWithin(out.value[i],
                                 ExactSum(token_embeddings, i, n), n,
                                 2 ^ Precision - n,
                                 n * AbsSum(token_embeddings, i, n))
                  /\ ExactColumn(token_embeddings, i) =>
                        ValueEq(out.value[i],
                                ExactSum(token_embeddings, i, n), n)

\* Three vectors of width 2 were averaged; the first column's sum rounds,
\* the second column's mean is exact.
C6_Witness ==
    /\ called = "average_pooling"
    /\ Len(token_embeddings) = 3
    /\ Dim(token_embeddings) = 2
    /\ ~ExactColumn(token_embeddings, 1)
    /\ ExactColumn(token_embeddings, 2)
    /\ out.kind = "ndarray"

\* C7: max_pooling of n >= 1 vectors of width D has width D and its element
\* i is the largest entry of column i.
C7_ElementwiseMax ==
    (called = "max_pooling" /\ token_embeddings # <<>>) =>
        /\ out.kind = "ndarray"
        /\ Len(out.value) = Dim(token_embeddings)
        /\ \A i \in 1..Dim(token_embeddings) :
              ValueEq(out.value[i], ExactMax(token_embeddings, i), 1)

\* The elementwise maximum of the tokens is none of the tokens.
C7_Witness ==
    /\ called = "max_pooling"
    /\ Len(token_embeddings) >= 2
    /\ Dim(token_embeddings) = 2
    /\ out.kind = "ndarray"
    /\ \A k \in 1..Len(token_embeddings) :
          \E i \in 1..2 : ~ValueEq(out.value[i], token_embeddings[k][i], 1)

\* C8: concatenate_pooling of n >= 1 vectors of width D has width 2*D; its
\* first D elements are the average_pooling of the same tokens and its last
\* D elements their max_pooling.
C8_AverageThenMax ==
    (called = "concatenate_pooling" /\ token_embeddings # <<>>) =>
        LET D == Dim(token_embeddings)
        IN  /\ out.kind = "ndarray"
            /\ Len(out.value) = 2 * D
            /\ SubSeq(out.value, 1, D) = average_pooling(token_embeddings).value
            /\ SubSeq(out.value, D + 1, 2 * D)
                  = max_pooling(token_embeddings).value
            /\ \A i \in 1..D :
                  ValueEq(out.value[D + i], ExactMax(token_embeddings, i), 1)

\* The two halves of the concatenation differ.
C8_Witness ==
    /\ called = "concatenate_pooling"
    /\ Len(token_embeddings) >= 2
    /\ Dim(token_embeddings) = 2
    /\ out.kind = "ndarray"
    /\ SubSeq(out.value, 1, 2) # SubSeq(out.value, 3, 4)

IntValue(i) == [type |-> "int", int |-> i, str |-> ""]
StrValue(x) == [type |-> "str", int |-> 0, str |-> x]

\* The default of the parameter n_ctx (line 19).
DefaultNCtx == 512

RepoIds == {"repo/a", "repo/b"}

ContextLengths == {IntValue(DefaultNCtx), IntValue(4 * DefaultNCtx)}

PromptKeys == {"zero_shot", "few_shot"}

PromptEntries == {[system_prompt |-> "sys", user_prompt |-> "usr"]}

\* The JSON objects with keys among K and values among V.
JsonObjects(K, V) == UNION {[S -> V] : S \in SUBSET K}

\* Outcomes of get_prompt.
PromptTuple(entry) ==
    [kind |-> "tuple", value |-> <<entry.system_prompt, entry.user_prompt>>]
KeyError == [kind |-> "KeyError", value |-> <<>>]
NoPrompt == [kind |-> "none", value |-> <<>>]

\* utils.get_value_by_key_json: data.get(key, "Key not found").
get_value_by_key_json(data, key) ==
    IF key \in DOMAIN data THEN data[key] ELSE StrValue("Key not found")

\* __init__ or get_prompt is entered; both JSON files exist.
InitConfig ==
    /\ context_lenght \in JsonObjects(RepoIds, ContextLengths)
    /\ prompts \in JsonObjects(PromptKeys, PromptEntries)
    /\ \/ /\ cpc = "init_lookup"
          /\ repo_id \in RepoIds
          /\ key_name = None
       \/ /\ cpc = "get_prompt"
          /\ repo_id = None
          /\ key_name \in PromptKeys
    /\ n_ctx = IntValue(DefaultNCtx)
    /\ hub_downloads = <<>>
    /\ llama_loads = <<>>
    /\ prompt_result = NoPrompt
    /\ DriverIdle
    /\ PoolIdle

\* Line 28: n_ctx = get_value_by_key_json(..., key = repo_id).
LookupContextLength ==
    /\ cpc = "init_lookup"
    /\ n_ctx' = get_value_by_key_json(context_lenght, repo_id)
    /\ cpc' = "init_download"
    /\ UNCHANGED <<context_lenght, prompts, repo_id, key_name, hub_downloads,
                   llama_loads, prompt_result>>
    /\ UNCHANGED <<driverVars, poolVars>>

\* Line 29: hf_hub_download(repo_id=repo_id, filename=filename) is called
\* and returns the model path, or raises.
HubDownload(ok) ==
    /\ cpc = "init_download"
    /\ hub_downloads' = Append(hub_downloads, repo_id)
    /\ cpc' = IF ok THEN "init_load" ELSE "init_raised"
    /\ UNCHANGED <<context_lenght, prompts, repo_id, key_name, n_ctx,
                   llama_loads, prompt_result>>
    /\ UNCHANGED <<driverVars, poolVars>>

\* Lines 30-35: llama_cpp.Llama(model_path=..., n_ctx=n_ctx, ...) is called
\* and returns the model, or raises.
LlamaLoad(ok) ==
    /\ cpc = "init_load"
    /\ llama_loads' = Append(llama_loads, n_ctx)
    /\ cpc' = IF ok THEN "init_done" ELSE "init_raised"
    /\ UNCHANGED <<context_lenght, prompts, repo_id, key_name, n_ctx,
                   hub_downloads, prompt_result>>
    /\ UNCHANGED <<driverVars, poolVars>>

\* utils.get_prompt, lines 206-210.
GetPrompt ==
    /\ cpc = "get_prompt"
    /\ IF key_name \in DOMAIN prompts
       THEN /\ prompt_result' = PromptTuple(prompts[key_name])
            /\ cpc' = "prompt_done"
       ELSE /\ prompt_result' = KeyError
            /\ cpc' = "prompt_raised"
    /\ UNCHANGED <<context_lenght, prompts, repo_id, key_name, n_ctx,
                   hub_downloads, llama_loads>>
    /\ UNCHANGED <<driverVars, poolVars>>

NextConfig ==
    \/ LookupContextLength
    \/ \E ok \in BOOLEAN : HubDownload(ok)
    \/ \E ok \in BOOLEAN : LlamaLoad(ok)
    \/ GetPrompt

SpecConfig == InitConfig /\ [][NextConfig]_vars

(***************************************************************************)
(* Claim about the configuration lookups, checked under SpecConfig.        *)
(***************************************************************************)
\* C5 as claimed: a lookup of an absent key ends at once in an error: after
\* the lookup of an unknown repo_id, __init__ has raised, n_ctx holds no
\* substitute, and neither the download nor the model load was called;
\* get_prompt of an unknown key raises KeyError.
C5_MissingKeySurfaced ==
    /\ (cpc \in {"init_download", "init_load", "init_done", "init_raised"}
           /\ repo_id \notin DOMAIN context_lenght) =>
          /\ cpc = "init_raised"
          /\ n_ctx.type = "int"
          /\ hub_downloads = <<>>
          /\ llama_loads = <<>>
    /\ (cpc \in {"prompt_done", "prompt_raised"}
           /\ key_name \notin DOMAIN prompts) =>
          /\ cpc = "prompt_raised"
          /\ prompt_result = KeyError

====
